---- MODULE Spec2Model ----
(***************************************************************************)
(* Playback / view-state controller of kiss_icp/tools/visualizer.py.       *)
(*                                                                         *)
(* One process constructs one viewer (Kissualizer on polyscope, or         *)
(* RegistrationVisualizer on open3d) and then calls update once per frame. *)
(* Everything runs on the caller's thread: the renderer delivers its       *)
(* callbacks only from inside a poll (frame_tick / poll_events) made by    *)
(* update.                                                                 *)
(*                                                                         *)
(* Poses are rigid transforms of the plane with quarter-turn rotations:    *)
(* [r, x, y] is "rotate by r*90 degrees, then translate by (x, y)".        *)
(* Point clouds are finite sets of point ids.                              *)
(***************************************************************************)
EXTENDS Integers, Sequences, FiniteSets, TLC

\* ---------------------------------------------------------------- bounds
MaxFrames == 2      \* update calls in one session
MaxClicks == 1      \* widgets activated in one polyscope frame

\* ---------------------------------------------------------------- numpy
eye == [r |-> 0, x |-> 0, y |-> 0]

rotate(r, x, y) ==
    CASE r = 0 -> <<x, y>>
      [] r = 1 -> <<0 - y, x>>
      [] r = 2 -> <<0 - x, 0 - y>>
      [] r = 3 -> <<y, 0 - x>>

\* a @ b
matmul(a, b) ==
    LET t == rotate(a.r, b.x, b.y)
    IN  [r |-> (a.r + b.r) % 4, x |-> a.x + t[1], y |-> a.y + t[2]]

inv_as_identity(pose) == pose

\* np.linalg.inv(pose)
inv(pose) ==
    LET ri == (4 - pose.r) % 4
        t == rotate(ri, pose.x, pose.y)
    IN  [r |-> ri, x |-> 0 - t[1], y |-> 0 - t[2]]

\* pose[:3, 3]
translation(pose) == <<pose.x, pose.y>>

\* ---------------------------------------------------------------- inputs
\* The frames the pipeline can hand to update: (source, keypoints,
\* target_map.point_cloud(), pose).
Frames ==
    { [source |-> {1, 2}, keypoints |-> {1}, target |-> {1, 2, 3}, pose |-> eye],
      [source |-> {4, 5}, keypoints |-> {4}, target |-> {1, 2, 3, 4},
       pose |-> [r |-> 1, x |-> 1, y |-> 0]] }

BACKGROUND_COLOR == "black"
Colors == {"black", "white"}

Widgets == {"START/PAUSE", "NEXT FRAME", "CENTER VIEWPOINT", "Frame Cloud",
            "Keypoints", "Local Map", "Background Color", "GLOBAL VIEW", "QUIT"}

Keys == {"Q", " ", "N", "V", "C", "F", "K", "M", "T", "B", "W"}

CloudNames == {"current_frame", "keypoints", "local_map", "trajectory"}

VARIABLES
    backend,       \* which viewer the process constructs: "polyscope" | "open3d"
    pc,            \* where the caller's thread is
    exit_status,   \* <<>> while the process runs, <<status>> once it has ended
    Kissualizer,   \* class attributes of Kissualizer
    polyscope,     \* the polyscope scene
    self,          \* attributes of the RegistrationVisualizer instance
    vis,           \* the open3d VisualizerWithKeyCallback
    calls,         \* poses of the update calls made so far, in call order
    call,          \* the current (or last) update call as seen by its caller
    stdout         \* the lines the process has printed

vars ==
    <<backend, pc, exit_status, Kissualizer, polyscope, self, vis, calls, call,
      stdout>>

\* ------------------------------------------------------------ call record
\* play_at_entry: PlayMode when update was entered
\* advance:       some poll of this call delivered a Step or a Play signal
\* signals:       the playback signals the poll in progress has delivered:
\*                "none", "step" (Step signals and nothing else) or "play"
\*                (a Play signal, with or without Step signals)
NoCall == [play_at_entry |-> FALSE, advance |-> FALSE, signals |-> "none"]

NewCall(play) == [NoCall EXCEPT !.play_at_entry = play]

\* the poll in progress delivers a Step (step) and / or a Play (play) signal
Deliver(c, step, play) ==
    [c EXCEPT !.advance = @ \/ step \/ play,
              !.signals = IF play \/ @ = "play" THEN "play"
                          ELSE IF step THEN "step" ELSE @]

EndPoll(c) == [c EXCEPT !.signals = "none"]

Last(s) == s[Len(s)]

\* ------------------------------------------------------------- polyscope
NoCloud == [registered |-> FALSE, points |-> {}, transform |-> eye, enabled |-> TRUE]

\* polyscope.register_point_cloud(name, points): a structure registered again
\* under the same name keeps polyscope's persistent options (enabled, transform).
register_point_cloud(ps, name, points) ==
    [ps EXCEPT !.clouds[name] = [@ EXCEPT !.registered = TRUE, !.points = points]]

set_transform(ps, name, T) == [ps EXCEPT !.clouds[name].transform = T]

set_enabled_always(ps, name, b) == [ps EXCEPT !.clouds[name].enabled = TRUE]

set_enabled(ps, name, b) == [ps EXCEPT !.clouds[name].enabled = b]

\* ----------------------------------------------------- Kissualizer.update
trajectory_append_global_only(K, pose) ==
    IF K.global_view
    THEN [K EXCEPT !.trajectory = Append(@, translation(pose))]
    ELSE K

\* Kissualizer.trajectory.append(pose[:3, 3])
trajectory_append(K, pose) ==
    [K EXCEPT !.trajectory = Append(@, translation(pose))]

\* the body of Kissualizer.update up to the visualization loop
Kissualizer_update(K, ps, f) ==
    LET p1 == set_enabled(
                set_transform(register_point_cloud(ps, "current_frame", f.source),
                              "current_frame",
                              IF K.global_view THEN f.pose ELSE eye),
                "current_frame", K.toggle_frame)
        p2 == set_enabled(
                set_transform(register_point_cloud(p1, "keypoints", f.keypoints),
                              "keypoints",
                              IF K.global_view THEN f.pose ELSE eye),
                "keypoints", K.toggle_keypoints)
        p3 == set_enabled(
                set_transform(register_point_cloud(p2, "local_map", f.target),
                              "local_map",
                              IF K.global_view THEN eye ELSE inv(f.pose)),
                "local_map", K.toggle_map)
        K1 == trajectory_append(K, f.pose)
        p4 == register_point_cloud(p3, "trajectory",
                IF K.global_view THEN K1.trajectory ELSE <<translation(eye)>>)
    IN  [K |-> [K1 EXCEPT !.last_pose = f.pose], ps |-> p4]

_update_visualizer_returns_after_poll(K) == FALSE

\* _update_visualizer after frame_tick: TRUE when the loop goes round again
\* (no break on play_mode, and the while condition still holds)
_update_visualizer_loops(K) == ~K.play_mode /\ K.block_execution

\* ------------------------------------------------ Kissualizer._gui_callback
start_pause(K, clicked) ==
    IF "START/PAUSE" \in clicked THEN [K EXCEPT !.play_mode = ~@] ELSE K

\* the NEXT FRAME button exists only while play_mode is false
next_frame_pressed(K, clicked) == ~K.play_mode /\ "NEXT FRAME" \in clicked

next_frame(K, clicked) ==
    IF next_frame_pressed(K, clicked) THEN [K EXCEPT !.block_execution = ~@] ELSE K

center_viewpoint(ps, clicked) ==
    IF "CENTER VIEWPOINT" \in clicked THEN [ps EXCEPT !.camera = "home"] ELSE ps

toggle_buttons(K, clicked) ==
    [K EXCEPT !.toggle_frame = IF "Frame Cloud" \in clicked THEN ~@ ELSE @,
              !.toggle_keypoints = IF "Keypoints" \in clicked THEN ~@ ELSE @,
              !.toggle_map = IF "Local Map" \in clicked THEN ~@ ELSE @]

\* K is the state after toggle_buttons
toggle_buttons_scene(K, ps, clicked) ==
    LET p1 == IF "Frame Cloud" \in clicked
              THEN set_enabled(ps, "current_frame", K.toggle_frame) ELSE ps
        p2 == IF "Keypoints" \in clicked
              THEN set_enabled(p1, "keypoints", K.toggle_keypoints) ELSE p1
    IN  IF "Local Map" \in clicked
        THEN set_enabled(p2, "local_map", K.toggle_map) ELSE p2

\* ColorEdit3 hands back the colour the user picked
background_color(K, clicked) ==
    IF "Background Color" \in clicked
    THEN [K EXCEPT !.background_color = CHOOSE c \in Colors : c # @]
    ELSE K

global_view_button(K, clicked) ==
    IF "GLOBAL VIEW" \in clicked THEN [K EXCEPT !.global_view = ~@] ELSE K

global_view_scene_keeps_map(K, ps, clicked) ==
    IF "GLOBAL VIEW" \notin clicked THEN ps
    ELSE LET p1 == set_enabled(ps, "trajectory", K.global_view)
             T == IF K.global_view THEN K.last_pose ELSE eye
         IN  [set_transform(set_transform(p1, "current_frame", T), "keypoints", T)
              EXCEPT !.camera = IF K.global_view THEN "home" ELSE "look_at"]

\* K is the state after global_view_button
global_view_scene(K, ps, clicked) ==
    IF "GLOBAL VIEW" \notin clicked THEN ps
    ELSE LET p1 == set_enabled(ps, "trajectory", K.global_view)
         IN  IF K.global_view
             THEN [set_transform(
                     set_transform(
                       set_transform(p1, "current_frame", K.last_pose),
                       "keypoints", K.last_pose),
                     "local_map", eye)
                   EXCEPT !.camera = "home"]
             ELSE [set_transform(
                     set_transform(
                       set_transform(p1, "current_frame", eye),
                       "keypoints", eye),
                     "local_map", inv(K.last_pose))
                   EXCEPT !.camera = "look_at"]

os_exit_returns(status) == <<>>

\* os._exit(status)
os_exit(status) == <<status>>

_gui_callback(K, ps, clicked) ==
    LET K1 == start_pause(K, clicked)
        K2 == next_frame(K1, clicked)
        p1 == center_viewpoint(ps, clicked)
        K3 == toggle_buttons(K2, clicked)
        p2 == toggle_buttons_scene(K3, p1, clicked)
        K4 == background_color(K3, clicked)
        p3 == [p2 EXCEPT !.background_color = K4.background_color]
        K5 == global_view_button(K4, clicked)
        p4 == global_view_scene(K5, p3, clicked)
        quit == "QUIT" \in clicked
    IN  [K |-> K5,
         ps |-> IF quit THEN [p4 EXCEPT !.shown = FALSE] ELSE p4,
         status |-> IF quit THEN os_exit(0) ELSE <<>>,
         out |-> IF quit THEN <<"Destroying Visualizer">> ELSE <<>>,
         step |-> next_frame_pressed(K1, clicked),
         play |-> "START/PAUSE" \in clicked]

\* ---------------------------------------------------------------- state
InitKissualizer ==
    [block_execution |-> TRUE, play_mode |-> FALSE,
     toggle_frame |-> TRUE, toggle_keypoints |-> TRUE, toggle_map |-> TRUE,
     global_view |-> FALSE, background_color |-> BACKGROUND_COLOR,
     trajectory |-> <<>>, last_pose |-> eye]

InitPolyscope ==
    [initialized |-> FALSE, shown |-> FALSE, camera |-> "home",
     background_color |-> BACKGROUND_COLOR,
     clouds |-> [n \in CloudNames |-> NoCloud]]

\* RegistrationVisualizer before __init__ has run
InitSelf == [constructed |-> FALSE]

InitVis ==
    [window |-> FALSE, background_color |-> BACKGROUND_COLOR,
     view_point |-> "initial", scene |-> <<>>]

Init ==
    /\ backend \in {"polyscope", "open3d", "stub"}
    /\ pc = "start"
    /\ exit_status = <<>>
    /\ Kissualizer = InitKissualizer
    /\ polyscope = InitPolyscope
    /\ self = InitSelf
    /\ vis = InitVis
    /\ calls = <<>>
    /\ call = NoCall
    /\ stdout = <<>>

\* ------------------------------------------------------------ Kissualizer
POLYSCOPE_HINT ==
    "polyscope is not installed on your system, run \"pip install polyscope\""

OPEN3D_HINT == "open3d is not installed on your system, run \"pip install open3d\""

Kissualizer__init__degrades(ps, installed) ==
    [ps |-> [ps EXCEPT !.initialized = TRUE, !.shown = TRUE],
     status |-> <<>>,
     out |-> IF installed THEN <<>> ELSE <<POLYSCOPE_HINT>>]

\* Kissualizer.__init__: importlib.import_module("polyscope") either finds the
\* module (installed) or raises ModuleNotFoundError
Kissualizer__init__(ps, installed) ==
    IF installed
    THEN [ps |-> [ps EXCEPT !.initialized = TRUE, !.shown = TRUE],
          status |-> <<>>, out |-> <<>>]
    ELSE [ps |-> ps, status |-> os_exit(1), out |-> <<POLYSCOPE_HINT>>]

\* Kissualizer.block_execution = not Kissualizer.block_execution
negate_block_execution_skipped(K) == K

negate_block_execution(K) == [K EXCEPT !.block_execution = ~@]

K_init(installed) ==
    /\ backend = "polyscope" /\ pc = "start" /\ exit_status = <<>>
    /\ LET i == Kissualizer__init__(polyscope, installed)
       IN  /\ polyscope' = i.ps
           /\ exit_status' = i.status
           /\ stdout' = stdout \o i.out
           /\ pc' = IF i.status = <<>> THEN "caller" ELSE "start"
    /\ UNCHANGED <<backend, Kissualizer, self, vis, calls, call>>

\* update(source, keypoints, target_map, pose), up to the first poll; when
\* block_execution is false the loop body is skipped and update returns
K_update(f) ==
    /\ backend = "polyscope" /\ pc = "caller" /\ exit_status = <<>>
    /\ Len(calls) < MaxFrames
    /\ LET u == Kissualizer_update(Kissualizer, polyscope, f)
       IN  /\ polyscope' = u.ps
           /\ calls' = Append(calls, f.pose)
           /\ call' = NewCall(Kissualizer.play_mode)
           /\ IF u.K.block_execution
              THEN /\ Kissualizer' = u.K
                   /\ pc' = "tick"
              ELSE /\ Kissualizer' = negate_block_execution(u.K)
                   /\ pc' = "caller"
    /\ UNCHANGED <<backend, exit_status, self, vis, stdout>>

\* polyscope.frame_tick(): draws one frame and runs _gui_callback once
K_frame_tick(clicked) ==
    /\ backend = "polyscope" /\ pc = "tick" /\ exit_status = <<>>
    /\ LET g == _gui_callback(Kissualizer, polyscope, clicked)
       IN  /\ Kissualizer' = g.K
           /\ polyscope' = g.ps
           /\ exit_status' = g.status
           /\ pc' = IF "QUIT" \in clicked THEN "tick" ELSE "ticked"
           /\ call' = Deliver(call, g.step, g.play)
           /\ stdout' = stdout \o g.out
    /\ UNCHANGED <<backend, self, vis, calls>>

\* the rest of the loop body of _update_visualizer and the loop test; on
\* leaving the loop block_execution is negated and update returns
K_after_tick ==
    /\ backend = "polyscope" /\ pc = "ticked" /\ exit_status = <<>>
    /\ call' = EndPoll(call)
    /\ IF _update_visualizer_loops(Kissualizer)
       THEN /\ pc' = "tick"
            /\ UNCHANGED Kissualizer
       ELSE /\ pc' = "caller"
            /\ Kissualizer' = negate_block_execution(Kissualizer)
    /\ UNCHANGED <<backend, exit_status, polyscope, self, vis, calls, stdout>>

KNext ==
    \/ \E installed \in BOOLEAN : K_init(installed)
    \/ \E f \in Frames : K_update(f)
    \/ \E clicked \in SUBSET Widgets :
          Cardinality(clicked) <= MaxClicks /\ K_frame_tick(clicked)
    \/ K_after_tick

\* ------------------------------------------------- RegistrationVisualizer
EmptyCloud == [points |-> {}, transform |-> eye]

\* geometry.points = Vector3dVector(points)
Vector3dVector(points) == [points |-> points, transform |-> eye]

\* geometry.transform(T)
transform(g, T) == [g EXCEPT !.transform = matmul(T, @)]

\* the attributes __init__ sets
ConstructedSelf ==
    [constructed |-> TRUE,
     block_vis |-> TRUE, play_crun |-> FALSE, reset_bounding_box |-> TRUE,
     source |-> EmptyCloud, keypoints |-> EmptyCloud, target |-> EmptyCloud,
     frames |-> <<>>,
     render_map |-> TRUE, render_source |-> TRUE, render_keypoints |-> FALSE,
     global_view |-> FALSE, render_trajectory |-> TRUE,
     state |-> <<TRUE, FALSE, TRUE>>]

_set_black_background(v) == [v EXCEPT !.background_color = "black"]

_set_white_background(v) == [v EXCEPT !.background_color = "white"]

_next_frame(s) == [s EXCEPT !.block_vis = ~@]

_start_stop(s) == [s EXCEPT !.play_crun = ~@]

_toggle_source_sets(s) ==
    [s EXCEPT !.render_keypoints = FALSE, !.render_source = TRUE]

_toggle_source(s) ==
    IF s.render_keypoints
    THEN [s EXCEPT !.render_keypoints = FALSE, !.render_source = TRUE]
    ELSE [s EXCEPT !.render_source = ~@]

_toggle_keypoints_plain(s) == [s EXCEPT !.render_keypoints = ~@]

_toggle_keypoints(s) ==
    IF s.render_source
    THEN [s EXCEPT !.render_source = FALSE, !.render_keypoints = TRUE]
    ELSE [s EXCEPT !.render_keypoints = ~@]

_toggle_map_clears(s) ==
    [s EXCEPT !.render_map = ~@, !.target = [points |-> {}, transform |-> eye]]

_toggle_map(s) == [s EXCEPT !.render_map = ~@]

\* vis.scene[i] is the number of renderers the scene holds for frames[i]:
\* add_geometry adds one, remove_geometry drops one if there is one
_trajectory_handle(s, v) ==
    IF s.render_trajectory /\ s.global_view
    THEN [v EXCEPT !.scene = [i \in DOMAIN @ |-> @[i] + 1]]
    ELSE [v EXCEPT !.scene = [i \in DOMAIN @ |-> IF @[i] > 0 THEN @[i] - 1 ELSE 0]]

_toggle_view_flag_only(s, v) ==
    [self |-> [s EXCEPT !.global_view = ~@], vis |-> v]

_toggle_view(s, v) ==
    LET s1 == [s EXCEPT !.global_view = ~@]
    IN  [self |-> s1, vis |-> _trajectory_handle(s1, v)]

_center_viewpoint(v) == [v EXCEPT !.view_point = "reset"]

_toggle_trajectory_unguarded(s, v) ==
    LET s1 == [s EXCEPT !.render_trajectory = ~@]
    IN  [self |-> s1, vis |-> _trajectory_handle(s1, v)]

_toggle_trajectory(s, v) ==
    IF ~s.global_view THEN [self |-> s, vis |-> v]
    ELSE LET s1 == [s EXCEPT !.render_trajectory = ~@]
         IN  [self |-> s1, vis |-> _trajectory_handle(s1, v)]

\* _quit: vis.destroy_window(), os._exit(0)
_quit(v) == [v EXCEPT !.window = FALSE]

\* the callback _register_key_callbacks binds to key
key_callback(key, s, v) ==
    CASE key = "Q" -> [self |-> s, vis |-> _quit(v)]
      [] key = " " -> [self |-> _start_stop(s), vis |-> v]
      [] key = "N" -> [self |-> _next_frame(s), vis |-> v]
      [] key = "V" -> _toggle_view(s, v)
      [] key = "C" -> [self |-> s, vis |-> _center_viewpoint(v)]
      [] key = "F" -> [self |-> _toggle_source(s), vis |-> v]
      [] key = "K" -> [self |-> _toggle_keypoints(s), vis |-> v]
      [] key = "M" -> [self |-> _toggle_map(s), vis |-> v]
      [] key = "T" -> _toggle_trajectory(s, v)
      [] key = "B" -> [self |-> s, vis |-> _set_black_background(v)]
      [] key = "W" -> [self |-> s, vis |-> _set_white_background(v)]

\* new_frame = create_sphere(...); new_frame.transform(pose); frames.append(new_frame)
frames_append(s, pose) ==
    [s EXCEPT !.frames = Append(@, [transform |-> matmul(pose, eye)])]

_update_geometries(s, v, f) ==
    LET src == IF s.render_source
               THEN IF s.global_view
                    THEN transform(Vector3dVector(f.source), f.pose)
                    ELSE Vector3dVector(f.source)
               ELSE Vector3dVector({})
        kps == IF s.render_keypoints
               THEN IF s.global_view
                    THEN transform(Vector3dVector(f.keypoints), f.pose)
                    ELSE Vector3dVector(f.keypoints)
               ELSE Vector3dVector({})
        tgt == IF s.render_map
               THEN IF s.global_view
                    THEN Vector3dVector(f.target)
                    ELSE transform(Vector3dVector(f.target), inv(f.pose))
               ELSE Vector3dVector({})
        s1 == frames_append(
                [s EXCEPT !.source = src, !.keypoints = kps, !.target = tgt],
                f.pose)
        v1 == [v EXCEPT !.scene =
                 Append(@, IF s.render_trajectory /\ s.global_view THEN 1 ELSE 0)]
    IN  [self |-> [s1 EXCEPT !.reset_bounding_box = FALSE],
         vis |-> IF s.reset_bounding_box THEN [v1 EXCEPT !.view_point = "reset"]
                 ELSE v1]

\* RegistrationVisualizer.update after update_renderer: TRUE when the loop goes
\* round again (no break on play_crun, and the while condition still holds)
update_loops(s) == ~s.play_crun /\ s.block_vis

\* RegistrationVisualizer.__init__
R_init(installed) ==
    /\ backend = "open3d" /\ pc = "start" /\ exit_status = <<>>
    /\ IF installed
       THEN /\ self' = ConstructedSelf
            /\ vis' = _set_black_background([vis EXCEPT !.window = TRUE])
            /\ pc' = "caller"
            /\ stdout' = Append(stdout, "RegistrationVisualizer initialized. Press:")
            /\ UNCHANGED exit_status
       ELSE /\ exit_status' = os_exit(1)
            /\ stdout' = Append(stdout, OPEN3D_HINT)
            /\ UNCHANGED <<self, vis, pc>>
    /\ UNCHANGED <<backend, Kissualizer, polyscope, calls, call>>

\* update(source, keypoints, target_map, pose), up to the first poll; when
\* block_vis is false the loop body is skipped and update returns
R_update(f) ==
    /\ backend = "open3d" /\ pc = "caller" /\ exit_status = <<>>
    /\ Len(calls) < MaxFrames
    /\ LET u == _update_geometries(self, vis, f)
       IN  /\ vis' = u.vis
           /\ calls' = Append(calls, f.pose)
           /\ call' = NewCall(self.play_crun)
           /\ IF u.self.block_vis
              THEN /\ self' = u.self
                   /\ pc' = "poll"
              ELSE /\ self' = [u.self EXCEPT !.block_vis = ~@]
                   /\ pc' = "caller"
    /\ UNCHANGED <<backend, exit_status, Kissualizer, polyscope, stdout>>

\* one key event dispatched by vis.poll_events() to its callback
R_key(key) ==
    /\ backend = "open3d" /\ pc = "poll" /\ exit_status = <<>>
    /\ LET k == key_callback(key, self, vis)
       IN  /\ self' = k.self
           /\ vis' = k.vis
    /\ exit_status' = IF key = "Q" THEN os_exit(0) ELSE <<>>
    /\ stdout' = IF key = "Q" THEN Append(stdout, "Destroying Visualizer") ELSE stdout
    /\ call' = Deliver(call, key = "N", key = " ")
    /\ UNCHANGED <<backend, pc, Kissualizer, polyscope, calls>>

\* poll_events returns; update_renderer, the break on play_crun and the loop
\* test; on leaving the loop block_vis is negated and update returns
R_poll_end ==
    /\ backend = "open3d" /\ pc = "poll" /\ exit_status = <<>>
    /\ call' = EndPoll(call)
    /\ IF update_loops(self)
       THEN /\ pc' = "poll"
            /\ UNCHANGED self
       ELSE /\ pc' = "caller"
            /\ self' = [self EXCEPT !.block_vis = ~@]
    /\ UNCHANGED <<backend, exit_status, Kissualizer, polyscope, vis, calls, stdout>>

RNext ==
    \/ \E installed \in BOOLEAN : R_init(installed)
    \/ \E f \in Frames : R_update(f)
    \/ \E key \in Keys : R_key(key)
    \/ R_poll_end

\* --------------------------------------------------------- StubVisualizer
StubVisualizer_update_renders(K, ps, f) == Kissualizer_update(K, ps, f)

\* StubVisualizer.update(source, keypoints, target_map, pose): pass
StubVisualizer_update(K, ps, f) == [K |-> K, ps |-> ps]

\* StubVisualizer.__init__: pass
S_init ==
    /\ backend = "stub" /\ pc = "start" /\ exit_status = <<>>
    /\ pc' = "caller"
    /\ UNCHANGED <<backend, exit_status, Kissualizer, polyscope, self, vis, calls,
                   call, stdout>>

\* the caller hands the stub the same four arguments and gets control back
S_update(f) ==
    /\ backend = "stub" /\ pc = "caller" /\ exit_status = <<>>
    /\ Len(calls) < MaxFrames
    /\ LET u == StubVisualizer_update(Kissualizer, polyscope, f)
       IN  /\ Kissualizer' = u.K
           /\ polyscope' = u.ps
    /\ calls' = Append(calls, f.pose)
    /\ UNCHANGED <<backend, pc, exit_status, self, vis, call, stdout>>

SNext ==
    \/ S_init
    \/ \E f \in Frames : S_update(f)

Next == KNext \/ RNext \/ SNext

Spec == Init /\ [][Next]_vars

\* ---------------------------------------------------------------- claims
\* one of the two rendering viewers (not the stub)
Viewer == backend \in {"polyscope", "open3d"}

Constructed == pc # "start"

PlayMode ==
    IF backend = "polyscope" THEN Kissualizer.play_mode
    ELSE self.constructed /\ self.play_crun

BlockFlag ==
    IF backend = "polyscope" THEN Kissualizer.block_execution
    ELSE self.constructed /\ self.block_vis

GlobalView ==
    IF backend = "polyscope" THEN Kissualizer.global_view
    ELSE self.constructed /\ self.global_view

\* the last update call has returned to its caller
Returned == pc = "caller" /\ calls # <<>>

\* this step is a call of update
UpdateEntered == Len(calls') > Len(calls)

\* this step ends a poll: the loop either goes round again or update returns
PollEnded == K_after_tick \/ R_poll_end

IsInverse(T, pose) == matmul(T, pose) = eye /\ matmul(pose, T) = eye

Render(s) == <<s.render_source, s.render_keypoints>>

ExactlyOne(s) == s.render_source # s.render_keypoints

\* C1: the viewer starts blocked with PlayMode false, and an update entered
\* with PlayMode false has returned only if one of its polls delivered a Step
\* or a Play signal.
C1_BlockedUntilSignal ==
    /\ (Viewer /\ Constructed /\ exit_status = <<>> /\ calls = <<>>)
          => (BlockFlag /\ ~PlayMode)
    /\ (Viewer /\ Returned /\ ~call.play_at_entry) => call.advance

C1_Witness ==
    /\ backend = "open3d" /\ Returned /\ Len(calls) >= 2
    /\ ~call.play_at_entry /\ call.advance

\* C2: an update entered with PlayMode true polls the event loop exactly
\* once and then returns: it does not return without polling, and it returns
\* when its first poll ends.
C2_PlayPollsOnce ==
    [][/\ (UpdateEntered /\ PlayMode) => pc' # "caller"
       /\ (PollEnded /\ call.play_at_entry) => pc' = "caller"]_vars

\* C3: update gives the frame cloud and the keypoints the identity and the map
\* the inverse of pose when global_view is false, and gives the frame cloud
\* and the keypoints pose and the map the identity when global_view is true
\* (in RegistrationVisualizer, for each geometry whose render flag is on).
C3_TransformRule ==
    [][(Viewer /\ UpdateEntered) =>
        LET pose == Last(calls')
        IN  IF backend = "polyscope"
            THEN LET c == polyscope'.clouds
                 IN  IF Kissualizer.global_view
                     THEN /\ c["current_frame"].transform = pose
                          /\ c["keypoints"].transform = pose
                          /\ c["local_map"].transform = eye
                     ELSE /\ c["current_frame"].transform = eye
                          /\ c["keypoints"].transform = eye
                          /\ IsInverse(c["local_map"].transform, pose)
            ELSE IF self.global_view
                 THEN /\ self.render_source => self'.source.transform = pose
                      /\ self.render_keypoints => self'.keypoints.transform = pose
                      /\ self.render_map => self'.target.transform = eye
                 ELSE /\ self.render_source => self'.source.transform = eye
                      /\ self.render_keypoints => self'.keypoints.transform = eye
                      /\ self.render_map =>
                            IsInverse(self'.target.transform, pose)]_vars

C3_Witness ==
    /\ backend = "open3d" /\ pc = "poll" /\ calls # <<>>
    /\ ~self.global_view /\ self.render_map
    /\ self.target.points # {}
    /\ self.target.transform # Last(calls)
    /\ IsInverse(self.target.transform, Last(calls))

\* C4: a switch of the reference mode repositions the registered geometries
\* at once: to global view, frame cloud and keypoints get the pose of the last
\* update and the map the identity; to ego view, frame cloud and keypoints get
\* the identity and the map the inverse of that pose.
C4_SwitchRepositions ==
    [][(calls # <<>> /\ GlobalView' # GlobalView) =>
        IF backend = "polyscope"
        THEN LET c == polyscope'.clouds
                 last_pose == Kissualizer.last_pose
             IN  IF Kissualizer'.global_view
                 THEN /\ c["current_frame"].transform = last_pose
                      /\ c["keypoints"].transform = last_pose
                      /\ c["local_map"].transform = eye
                 ELSE /\ c["current_frame"].transform = eye
                      /\ c["keypoints"].transform = eye
                      /\ IsInverse(c["local_map"].transform, last_pose)
        ELSE LET last_pose == Last(calls)
             IN  IF self'.global_view
                 THEN /\ self.source.points # {} => self'.source.transform = last_pose
                      /\ self.keypoints.points # {} =>
                            self'.keypoints.transform = last_pose
                      /\ self.target.points # {} => self'.target.transform = eye
                 ELSE /\ self.source.points # {} => self'.source.transform = eye
                      /\ self.keypoints.points # {} => self'.keypoints.transform = eye
                      /\ self.target.points # {} =>
                            IsInverse(self'.target.transform, last_pose)]_vars

\* C5: after N calls of update the trajectory (Kissualizer.trajectory, or
\* RegistrationVisualizer.frames) has exactly N entries, entry i made from the
\* pose of call i.
C5_TrajectoryInCallOrder ==
    IF backend = "polyscope"
    THEN /\ Len(Kissualizer.trajectory) = Len(calls)
         /\ \A i \in 1..Len(calls) :
               Kissualizer.trajectory[i] = <<calls[i].x, calls[i].y>>
    ELSE self.constructed =>
         /\ Len(self.frames) = Len(calls)
         /\ \A i \in 1..Len(calls) : self.frames[i].transform = calls[i]

C5_Witness ==
    /\ backend = "polyscope" /\ Len(calls) >= 2 /\ calls[1] # calls[2]
    /\ Len(Kissualizer.trajectory) = Len(calls)
    /\ Kissualizer.global_view /\ Kissualizer.play_mode

\* C6 as stated: from every reachable state, F then F, or K then K, brings
\* (render_source, render_keypoints) back to what it was.
C6_ToggleTwiceRestores ==
    (backend = "open3d" /\ self.constructed) =>
        /\ Render(_toggle_source(_toggle_source(self))) = Render(self)
        /\ Render(_toggle_keypoints(_toggle_keypoints(self))) = Render(self)

\* C6 as amended: F then F (K then K) brings (render_source, render_keypoints)
\* back when render_keypoints (render_source) is false at the first press;
\* when it is true the pair ends with both flags false.
C6_ToggleTwiceAmended ==
    (backend = "open3d" /\ self.constructed) =>
        LET FF == Render(_toggle_source(_toggle_source(self)))
            KK == Render(_toggle_keypoints(_toggle_keypoints(self)))
        IN  /\ ~self.render_keypoints => FF = Render(self)
            /\ self.render_keypoints => FF = <<FALSE, FALSE>>
            /\ ~self.render_source => KK = Render(self)
            /\ self.render_source => KK = <<FALSE, FALSE>>

C6_Witness ==
    /\ backend = "open3d" /\ self.constructed /\ pc = "poll"
    /\ ~self.render_source /\ ~self.render_keypoints

\* C7: render_source and render_keypoints are never both true, and the
\* keypoints toggle pressed while render_source is true (the frame toggle
\* pressed while render_keypoints is true) leaves exactly one of them true.
C7_MutuallyExclusive ==
    (backend = "open3d" /\ self.constructed) =>
        /\ ~(self.render_source /\ self.render_keypoints)
        /\ self.render_source => ExactlyOne(_toggle_keypoints(self))
        /\ self.render_keypoints => ExactlyOne(_toggle_source(self))

C7_Witness ==
    /\ backend = "open3d" /\ self.constructed /\ pc = "poll"
    /\ ~self.render_source /\ self.render_keypoints

\* C8: a Step signal delivered while PlayMode is true changes neither the
\* block flag nor PlayMode.
C8_StepOnlyWhilePaused ==
    [][/\ (/\ backend = "polyscope" /\ Kissualizer.play_mode
           /\ \E clicked \in SUBSET Widgets :
                /\ Cardinality(clicked) <= MaxClicks
                /\ "NEXT FRAME" \in clicked /\ "START/PAUSE" \notin clicked
                /\ K_frame_tick(clicked))
          => /\ Kissualizer'.block_execution = Kissualizer.block_execution
             /\ Kissualizer'.play_mode = Kissualizer.play_mode
       /\ (backend = "open3d" /\ pc = "poll" /\ self.play_crun /\ R_key("N"))
          => /\ self'.block_vis = self.block_vis
             /\ self'.play_crun = self.play_crun]_vars

\* C9: when a poll of an update blocked with PlayMode false has delivered
\* Step signals and no other playback signal, the update returns as that poll
\* ends.
C9_StepReleases ==
    [][(PollEnded /\ ~PlayMode /\ call.signals = "step") => pc' = "caller"]_vars

\* C10: once a Quit signal has torn the renderer down the process has ended
\* with status 0 inside the polling update, and nothing happens afterwards:
\* no update call, no geometry update, no trajectory append, no return.
TornDown ==
    IF backend = "polyscope" THEN polyscope.initialized /\ ~polyscope.shown
    ELSE self.constructed /\ ~vis.window

C10_QuitTerminal ==
    /\ [](TornDown => (exit_status = <<0>> /\ pc \in {"tick", "poll"}))
    /\ [][TornDown =>
            UNCHANGED <<pc, exit_status, Kissualizer, polyscope, self, vis, calls,
                        stdout>>]_vars

C10_Witness ==
    /\ TornDown /\ exit_status = <<0>> /\ Len(calls) >= 2

\* C11: the pose markers are in the scene all or nothing: every marker of
\* self.frames is in the scene exactly once when render_trajectory and
\* global_view are both true, and none is in it otherwise.
C11_MarkersAllOrNothing ==
    (backend = "open3d" /\ self.constructed) =>
        /\ Len(vis.scene) = Len(self.frames)
        /\ \A i \in 1..Len(self.frames) :
              vis.scene[i] =
                IF self.render_trajectory /\ self.global_view THEN 1 ELSE 0

C11_Witness ==
    /\ backend = "open3d" /\ self.constructed /\ pc = "poll"
    /\ Len(self.frames) >= 2
    /\ self.render_trajectory /\ self.global_view
    /\ \A i \in 1..Len(self.frames) : vis.scene[i] = 1

\* C12: the T key pressed in ego view leaves render_trajectory, global_view
\* and the markers in the scene as they are; pressed in global view it flips
\* render_trajectory.
C12_TrajectoryToggleGlobalOnly ==
    [][(backend = "open3d" /\ pc = "poll" /\ R_key("T")) =>
        IF self.global_view
        THEN /\ self'.render_trajectory = ~self.render_trajectory
             /\ self'.global_view
        ELSE /\ self'.render_trajectory = self.render_trajectory
             /\ ~self'.global_view
             /\ vis'.scene = vis.scene]_vars

C12_Witness ==
    /\ backend = "open3d" /\ self.constructed /\ pc = "poll"
    /\ self.global_view /\ ~self.render_trajectory
    /\ Len(self.frames) >= 1

\* C13: update includes each point geometry according to its own toggle as it
\* stands when update is entered: in Kissualizer the cloud is registered with
\* the frame's points and enabled iff its toggle is true; in
\* RegistrationVisualizer the geometry gets the frame's points iff its render
\* flag is true and no points otherwise.
C13_InclusionPerToggle ==
    [][\A f \in Frames :
        /\ K_update(f) =>
             LET c == polyscope'.clouds
             IN  /\ c["current_frame"].points = f.source
                 /\ c["current_frame"].enabled = Kissualizer.toggle_frame
                 /\ c["keypoints"].points = f.keypoints
                 /\ c["keypoints"].enabled = Kissualizer.toggle_keypoints
                 /\ c["local_map"].points = f.target
                 /\ c["local_map"].enabled = Kissualizer.toggle_map
        /\ R_update(f) =>
             /\ self'.source.points = IF self.render_source THEN f.source ELSE {}
             /\ self'.keypoints.points =
                  IF self.render_keypoints THEN f.keypoints ELSE {}
             /\ self'.target.points = IF self.render_map THEN f.target ELSE {}]_vars

C13_Witness ==
    /\ backend = "open3d" /\ self.constructed /\ calls # <<>>
    /\ self.source.points = {}
    /\ self.keypoints.points # {}
    /\ self.target.points # {}

\* the accumulated trajectory
Trajectory ==
    IF backend = "polyscope" THEN Kissualizer.trajectory
    ELSE IF self.constructed THEN self.frames ELSE <<>>

\* the frame data the viewer holds: trajectory, last pose and the point sets
\* of the registered geometries
FrameData ==
    IF backend = "polyscope"
    THEN <<Kissualizer.trajectory, Kissualizer.last_pose,
           [n \in CloudNames |-> polyscope.clouds[n].points]>>
    ELSE IF self.constructed
         THEN <<self.frames, self.source.points, self.keypoints.points,
                self.target.points>>
         ELSE <<<<>>, {}, {}, {}>>

IsPrefix(s, t) == Len(s) <= Len(t) /\ \A i \in 1..Len(s) : s[i] = t[i]

\* C14: only update changes frame data: every other step (each callback
\* included) leaves the trajectory, last_pose and the point sets of the
\* geometries as they are, and after any step the trajectory has its previous
\* value as a prefix.
C14_SignalsKeepFrameData ==
    [][/\ IsPrefix(Trajectory, Trajectory')
       /\ ~UpdateEntered => FrameData' = FrameData]_vars

C14_Witness ==
    /\ backend = "open3d" /\ self.constructed /\ pc = "poll"
    /\ Len(self.frames) >= 2
    /\ ~self.render_map /\ self.target.points # {}
    /\ self.global_view /\ vis.background_color = "white" /\ self.play_crun

InstallHintPrinted ==
    \E i \in 1..Len(stdout) : stdout[i] \in {POLYSCOPE_HINT, OPEN3D_HINT}

\* C15: a backend module that fails to load ends the process in the
\* constructor: the install hint is printed exactly when the process ends with
\* a non-zero status, and then no renderer was initialised, the viewer was
\* never constructed and no update was ever called.
C15_MissingBackendFatal ==
    /\ InstallHintPrinted <=> (exit_status # <<>> /\ exit_status[1] # 0)
    /\ InstallHintPrinted =>
          /\ pc = "start" /\ calls = <<>>
          /\ ~polyscope.initialized /\ ~polyscope.shown
          /\ ~self.constructed /\ ~vis.window

C15_Witness ==
    /\ backend = "open3d" /\ InstallHintPrinted /\ exit_status = <<1>>
    /\ pc = "start"

\* C16: StubVisualizer.update returns at once to its caller, without polling,
\* and changes no state of the process, for every frame it is handed.
C16_StubUpdateNoOp ==
    [][(backend = "stub" /\ UpdateEntered) =>
        /\ pc' = "caller"
        /\ UNCHANGED <<exit_status, Kissualizer, polyscope, self, vis, call,
                       stdout>>]_vars

C16_Witness ==
    /\ backend = "stub" /\ pc = "caller" /\ Len(calls) >= 2
    /\ Kissualizer = InitKissualizer /\ polyscope = InitPolyscope

\* C17: between update calls the block flag is true whenever PlayMode is
\* false, so an update entered with PlayMode false starts polling, and a poll
\* that delivered no playback signal while PlayMode is false is followed by
\* another poll.
C17_StepIsOneShot ==
    /\ []((Viewer /\ pc = "caller" /\ ~PlayMode) => BlockFlag)
    /\ [][/\ (Viewer /\ UpdateEntered /\ ~PlayMode) => pc' # "caller"
          /\ (PollEnded /\ ~PlayMode /\ call.signals = "none")
                => pc' # "caller"]_vars

C17_Witness ==
    /\ backend = "open3d" /\ pc = "poll" /\ Len(calls) >= 2
    /\ ~self.play_crun /\ self.block_vis
    /\ ~call.play_at_entry /\ ~call.advance

\* C18: in Kissualizer, once update has been called, last_pose is the pose of
\* the most recent update, current_frame and keypoints carry last_pose in
\* global view and the identity in ego view, and local_map carries the
\* identity in global view and the inverse of last_pose in ego view.
C18_OneModeBaked ==
    (backend = "polyscope" /\ calls # <<>>) =>
        LET c == polyscope.clouds
            last_pose == Kissualizer.last_pose
        IN  /\ last_pose = Last(calls)
            /\ IF Kissualizer.global_view
               THEN /\ c["current_frame"].transform = last_pose
                    /\ c["keypoints"].transform = last_pose
                    /\ c["local_map"].transform = eye
               ELSE /\ c["current_frame"].transform = eye
                    /\ c["keypoints"].transform = eye
                    /\ IsInverse(c["local_map"].transform, last_pose)

C18_Witness ==
    /\ backend = "polyscope" /\ pc = "tick" /\ Len(calls) >= 2
    /\ Kissualizer.global_view /\ Kissualizer.last_pose # eye
    /\ polyscope.clouds["current_frame"].transform = Kissualizer.last_pose
    /\ polyscope.clouds["local_map"].transform = eye

\* C19: in Kissualizer, while the viewer is polling in global view, the points
\* registered for the "trajectory" cloud are the whole accumulated trajectory.
C19_TrajectoryWholeInGlobalView ==
    (backend = "polyscope" /\ pc \in {"tick", "ticked"} /\ Kissualizer.global_view)
        => polyscope.clouds["trajectory"].points = Kissualizer.trajectory
====
